---- MODULE Spec2Model ----
(***************************************************************************)
(* Stage-tree execution engine of tumbler-doll (internal/workflow):        *)
(* GroovyDSLWorkflow, Stage.execute, Stage.executeSteps, Parallel.execute, *)
(* executeAsync; the functions Step.ToCommand, QuotedString.Capture,       *)
(* SampleActivity and buildImageWithTag; and the PluginManager (plugins).  *)
(*                                                                         *)
(* A workflow coroutine runs without interruption between two blocking     *)
(* calls (selector.Select, Future.Get), so every action below is one such  *)
(* uninterrupted run of one coroutine.  A coroutine started by workflow.Go *)
(* runs to its first blocking call as soon as its parent blocks, before    *)
(* any activity result arrives, so it is part of the parent's action.      *)
(* Once GroovyDSLWorkflow has returned the workflow is closed and no       *)
(* coroutine runs any more.  When several branch futures are set, Select   *)
(* may deliver any of them.                                                *)
(***************************************************************************)
EXTENDS Integers, Sequences, FiniteSets, TLC

VARIABLES
    pipeline,    \* the Pipeline handed to GroovyDSLWorkflow (read-only)
    pc,          \* per stage: where the coroutine executing stage.execute is
    ret,         \* per stage: value returned by stage.execute (set on the branch future)
    parRet,      \* per stage: value returned by stage.Parallel.execute (err, line 94)
    consumed,    \* per stage: the selector has run the callback of this branch's future
    cancelled,   \* per stage: cancelHandler() of the group's childCtx was called
    activityErr, \* per stage: activityErr of the group's Parallel.execute
    attempts,    \* per stage: attempts of the stage's activity made so far
    written,     \* per stage: number of executions of line 125 (results[stage.Name] = result)
    res,         \* the results maps: res[0] is results of line 80, res[g] parallelResults of stage g
    idx,         \* index of the stage the loop of GroovyDSLWorkflow is at (0: not started)
    wfDone,      \* GroovyDSLWorkflow has returned
    wfErr,       \* the error it returned
    wfRes,       \* the results value it returned
    firstFailed, \* per stage: the branch of its group whose failure completed first in time
    writers,     \* per results map and key: the stages whose coroutine assigned the key
    callArg,     \* the argument of the function applied (the Step given to ToCommand, ...)
    callRet,     \* whether it was applied, and what it returned
    plugins,     \* PluginManager.plugins[name] for the one name used: a plugin, or 0
    lock,        \* the goroutine holding PluginManager.lock, or 0
    calls,       \* per goroutine: the call it makes, where it is in it, what it returned
    started,     \* per plugin: number of calls of its Start
    stopped,     \* per plugin: number of calls of its Stop
    crashed      \* the Go runtime has ended the process with a fatal error

engineVars == <<pc, ret, parRet, consumed, cancelled, activityErr, attempts, written,
                res, idx, wfDone, wfErr, wfRes, firstFailed, writers>>
pmVars == <<plugins, lock, calls, started, stopped, crashed>>
workflowVars == <<pipeline, engineVars, callArg, callRet>>
vars == <<pipeline, engineVars, callArg, callRet, pmVars>>

-----------------------------------------------------------------------------
(* Pipelines.  A Stage is [Name, Steps, FailFast, Parallel]; Parallel holds *)
(* the indices of the child stages in the pipeline's stage table.           *)

MkStage(name, steps, ff, par) ==
    [Name |-> name, Steps |-> steps, FailFast |-> ff, Parallel |-> par]

\* The sample Jenkinsfile: two sequential stages and a parallel stage.
SamplePipeline ==
    [Stages |-> <<1, 2, 3>>,
     Table  |-> << MkStage("Example Build", <<"echo", "sh", "git">>, "absent", <<>>),
                   MkStage("Example Test", <<"echo", "sh">>, "absent", <<>>),
                   MkStage("Parallel Stage", <<>>, "true", <<4, 5, 6>>),
                   MkStage("Branch A", <<"echo">>, "absent", <<>>),
                   MkStage("Branch B", <<"echo">>, "absent", <<>>),
                   MkStage("Branch C", <<"echo">>, "absent", <<>>) >>]

\* A parallel group nested two levels deep, followed by a sequential stage.
NestedPipeline ==
    [Stages |-> <<1, 2>>,
     Table  |-> << MkStage("Outer", <<>>, "absent", <<3, 4>>),
                   MkStage("Last", <<"sh">>, "absent", <<>>),
                   MkStage("Inner", <<>>, "false", <<5, 6>>),
                   MkStage("Z", <<"sh">>, "absent", <<>>),
                   MkStage("B", <<"sh">>, "absent", <<>>),
                   MkStage("S", <<>>, "absent", <<7>>),
                   MkStage("C", <<"echo">>, "absent", <<>>) >>]

\* The same with steps of its own on the innermost group stage S.
NestedStepsPipeline ==
    [Stages |-> <<1>>,
     Table  |-> << MkStage("Outer", <<>>, "absent", <<2, 3>>),
                   MkStage("Inner", <<>>, "true", <<4, 5>>),
                   MkStage("Z", <<"sh">>, "absent", <<>>),
                   MkStage("B", <<"sh">>, "absent", <<>>),
                   MkStage("S", <<"sh">>, "absent", <<6>>),
                   MkStage("C", <<"echo">>, "absent", <<>>) >>]

\* A stage with a parallel group and steps, then a sequential stage.
BothPipeline ==
    [Stages |-> <<1, 2>>,
     Table  |-> << MkStage("Both", <<"sh", "echo">>, "absent", <<3, 4>>),
                   MkStage("After", <<"sh">>, "absent", <<>>),
                   MkStage("A", <<"sh">>, "absent", <<>>),
                   MkStage("B", <<"sh">>, "absent", <<>>) >>]

\* Two sibling branches with the same name (the grammar accepts them).
DupPipeline ==
    [Stages |-> <<1>>,
     Table  |-> << MkStage("Par", <<>>, "true", <<2, 3>>),
                   MkStage("A", <<"sh">>, "absent", <<>>),
                   MkStage("A", <<"echo">>, "absent", <<>>) >>]

\* Stages with neither steps nor a parallel group (the grammar accepts them).
EmptyPipeline ==
    [Stages |-> <<1, 2, 3>>,
     Table  |-> << MkStage("E", <<>>, "absent", <<>>),
                   MkStage("Par", <<>>, "absent", <<4, 5>>),
                   MkStage("Last", <<"sh">>, "absent", <<>>),
                   MkStage("A", <<>>, "absent", <<>>),
                   MkStage("B", <<"sh">>, "absent", <<>>) >>]

\* A group of two branches nested in the one branch of a group.
SmallNestedPipeline ==
    [Stages |-> <<1>>,
     Table  |-> << MkStage("Outer", <<>>, "absent", <<2>>),
                   MkStage("Inner", <<>>, "absent", <<3, 4>>),
                   MkStage("B", <<"sh">>, "absent", <<>>),
                   MkStage("C", <<"echo">>, "absent", <<>>) >>]

\* The pipelines of the specifications that multiply the states of the engine.
SmallPipelines == {SmallNestedPipeline, BothPipeline, DupPipeline, EmptyPipeline}

Pipelines ==
    {SamplePipeline, NestedPipeline, NestedStepsPipeline, BothPipeline,
     DupPipeline, EmptyPipeline}

StageNames == UNION {{p.Table[i].Name : i \in DOMAIN p.Table} : p \in Pipelines}

Ids == DOMAIN pipeline.Table
Stage(s) == pipeline.Table[s]
Range(q) == {q[i] : i \in DOMAIN q}
Children(s) == Range(Stage(s).Parallel)
TopLevel == Range(pipeline.Stages)
IsBranch(s) == \E g \in Ids : s \in Children(g)
Parent(s) == CHOOSE g \in Ids : s \in Children(g)

RECURSIVE Subtree(_)
Subtree(s) == {s} \cup UNION {Subtree(c) : c \in Children(s)}

\* faulty variant: a childCtx is cut off from the contexts it was derived from
ScopesParentOnly(s) == IF IsBranch(s) THEN {Parent(s)} ELSE {}

\* The parallel-group stages whose childCtx the context of stage s derives from.
RECURSIVE Scopes(_)
Scopes(s) == IF IsBranch(s) THEN {Parent(s)} \cup Scopes(Parent(s)) ELSE {}

-----------------------------------------------------------------------------
(* Values.                                                                 *)

\* error values: nil, the placeholder of a future not yet set, and errors
Nil == [kind |-> "nil", src |-> 0]
Pending == [kind |-> "pending", src |-> 0]
Err(kind, s) == [kind |-> kind, src |-> s]
ErrorKinds == {"failed", "timeout"}

\* values of a results map (map[string]any): no entry, a []string, a nested map
Absent == [kind |-> "absent", out |-> <<>>, ref |-> 0]
SeqVal(out) == [kind |-> "seq", out |-> out, ref |-> 0]
MapVal(m) == [kind |-> "map", out |-> <<>>, ref |-> m]
NilMap == [kind |-> "nil", out |-> <<>>, ref |-> 0]
EmptyMap == [n \in StageNames |-> Absent]

\* faulty variant: one attempt more than the policy of line 116
MaximumAttemptsPlusOne == 3 + 1

\* RetryPolicy.MaximumAttempts of the activity options
MaximumAttempts == 3

\* What the unit of work of stage s returns on success: one output per step.
UnitOutput(s) == [i \in 1..Len(Stage(s).Steps) |-> <<Stage(s).Name, Stage(s).Steps[i]>>]

-----------------------------------------------------------------------------
(* The engine.  An operator below maps the engine state e (a record of the *)
(* engine variables) to the state after the code it models has run.        *)

Cur ==
    [pc |-> pc, ret |-> ret, parRet |-> parRet, consumed |-> consumed,
     cancelled |-> cancelled, activityErr |-> activityErr, attempts |-> attempts,
     written |-> written, res |-> res, idx |-> idx, wfDone |-> wfDone,
     wfErr |-> wfErr, wfRes |-> wfRes, firstFailed |-> firstFailed,
     writers |-> writers]

Apply(e) ==
    /\ pc' = e.pc /\ ret' = e.ret /\ parRet' = e.parRet /\ consumed' = e.consumed
    /\ cancelled' = e.cancelled /\ activityErr' = e.activityErr
    /\ attempts' = e.attempts /\ written' = e.written /\ res' = e.res
    /\ idx' = e.idx /\ wfDone' = e.wfDone /\ wfErr' = e.wfErr /\ wfRes' = e.wfRes
    /\ firstFailed' = e.firstFailed /\ writers' = e.writers

\* faulty variant: cancelling a childCtx does not reach the activities under it
CtxNeverCancelled(e, s) == FALSE

\* ctx.Err() != nil for the ctx stage s executes under: a childCtx it derives
\* from was cancelled (workflow.WithCancel: cancelling a parent cancels the derived).
CtxCancelled(e, s) == \E g \in Scopes(s) : e.cancelled[g]

\* faulty variant: every branch is given the results map of GroovyDSLWorkflow
ResultsOfRoot(s) == 0

\* The results map stage s.execute is given: results of GroovyDSLWorkflow for a
\* top-level stage, the parallelResults of the enclosing stage for a branch.
ResultsOf(s) == IF IsBranch(s) THEN Parent(s) ELSE 0

\* results[stage.Name] = v in the coroutine executing stage s (lines 98, 125):
\* results is the one map the caller of s.execute handed in.
StoreResult(e, s, v) ==
    [e EXCEPT !.res[ResultsOf(s)][Stage(s).Name] = v,
              !.writers[ResultsOf(s)][Stage(s).Name] = @ \cup {s}]

\* stage.execute of s returns v; for a branch, settable.Set(nil, v).
Return(e, s, v) ==
    [e EXCEPT !.ret[s] = v, !.pc[s] = "done",
              !.firstFailed = IF v # Nil /\ IsBranch(s) /\ e.firstFailed[Parent(s)] = 0
                              THEN [e.firstFailed EXCEPT ![Parent(s)] = s]
                              ELSE e.firstFailed]

\* Stage.executeSteps up to the point where it blocks in Future.Get.  An
\* activity requested under a cancelled ctx resolves to a CanceledError at once.
ExecuteSteps(e, s) ==
    IF Len(Stage(s).Steps) = 0 THEN Return(e, s, Nil)
    ELSE IF CtxCancelled(e, s) THEN Return(e, s, Err("canceled", s))
    ELSE [e EXCEPT !.pc[s] = "activity", !.attempts[s] = 1]

\* Stage.execute of s from its call to the first blocking point of its coroutine.
\* Parallel.execute starts one coroutine per child (executeAsync) and blocks in
\* its first Select; the children then run to their own first blocking points.
RECURSIVE StageExecute(_, _), StartBranches(_, _, _)
StageExecute(e, s) ==
    IF Len(Stage(s).Parallel) > 0
    THEN StartBranches([e EXCEPT !.pc[s] = "select"], Stage(s).Parallel, 1)
    ELSE ExecuteSteps(e, s)

StartBranches(e, p, i) ==
    IF i > Len(p) THEN e ELSE StartBranches(StageExecute(e, p[i]), p, i + 1)

\* faulty variant: Stage.execute ignores the error of its parallel group
ParallelNeverFailed(err) == FALSE

\* line 95: Stage.execute returns the error of its parallel group
ParallelFailed(err) == err # Nil

\* faulty variant: the callback cancels but does not record the error
SelectorCallbackDrops(err) == Nil

\* lines 144-148: the callback of a branch future records the branch's error
SelectorCallback(err) == err

\* faulty variant: the loop goes on to the end although an error is recorded
LoopNeverReturns(aerr) == FALSE

\* line 154: the loop of Parallel.execute returns once an error is recorded
LoopReturns(aerr) == aerr # Nil

\* faulty variant: the loop calls Select once more than there are branches
LoopEndsOneLate(i, n) == i >= n + 1

\* faulty variant: the loop waits for one branch only
LoopEndsAfterOne(i, n) == i >= 1

\* line 152: the loop of Parallel.execute ends after len(p) Selects
LoopEnds(i, n) == i >= n

\* lines 94-104: Stage.execute of g once its Parallel.execute has returned err.
AfterParallel(e, g, err) ==
    LET e1 == [e EXCEPT !.parRet[g] = err] IN
    IF ParallelFailed(err)
    THEN Return(e1, g, err)
    ELSE ExecuteSteps(StoreResult(e1, g, MapVal(g)), g)

\* One iteration of the loop of Parallel.execute of stage g: Select delivers the
\* future of branch c, its callback runs, and the coroutine of g continues to
\* its next blocking point.
SelectBranch(e, g, c) ==
    LET err  == e.ret[c]
        e1   == [e EXCEPT !.consumed[c] = TRUE,
                          !.cancelled[g] = IF err # Nil THEN TRUE ELSE @,
                          !.activityErr[g] = IF err # Nil THEN SelectorCallback(err) ELSE @]
        i    == Cardinality({d \in Children(g) : e1.consumed[d]})
        aerr == e1.activityErr[g]
    IN  IF LoopReturns(aerr) THEN AfterParallel(e1, g, aerr)
        ELSE IF LoopEnds(i, Len(Stage(g).Parallel)) THEN AfterParallel(e1, g, Nil)
        ELSE e1

\* faulty variant: the loop stops only when the stage the error comes from has
\* not set failFast to false
RootStopsIfFailFast(err) == err # Nil /\ Stage(err.src).FailFast # "false"

\* faulty variant: the loop goes on to the next stage after an error
RootNeverStops(err) == FALSE

\* line 82: the loop of GroovyDSLWorkflow stops at a stage error
RootStops(err) == err # Nil

\* faulty variant: the results map is returned with the error
ErrorResultsPartial == MapVal(0)

\* line 83: the results value returned with an error
ErrorResults == NilMap

\* GroovyDSLWorkflow after its call of execute on stage i: blocked inside it, or
\* returning its error, or going on with the next stage, or returning results.
RECURSIVE RootLoop(_, _)
RootLoop(e, i) ==
    LET s == pipeline.Stages[i] IN
    IF e.ret[s] = Pending THEN e
    ELSE IF RootStops(e.ret[s])
    THEN [e EXCEPT !.wfDone = TRUE, !.wfErr = e.ret[s], !.wfRes = ErrorResults]
    ELSE IF i = Len(pipeline.Stages)
    THEN [e EXCEPT !.wfDone = TRUE, !.wfErr = Nil, !.wfRes = MapVal(0)]
    ELSE RootLoop(StageExecute([e EXCEPT !.idx = i + 1], pipeline.Stages[i + 1]), i + 1)

\* The coroutine of GroovyDSLWorkflow goes on when the top-level stage it is in returns.
RootResume(e) == RootLoop(e, e.idx)

-----------------------------------------------------------------------------
(* Step.ToCommand.  A string is a sequence of characters.                  *)

(* A nil pointer is the empty sequence, a non-nil one a sequence of one.    *)

MaxLen == 2       \* longest QuotedString value tried
MaxParams == 2    \* most parameters of a multi-argument step tried

Chars == {"a", "'"}
Idents == {<<"s", "h">>, <<"g", "i", "t">>}
Keys == {<<"u", "r", "l">>, <<"b">>}

RECURSIVE SeqsUpTo(_, _)
SeqsUpTo(S, n) ==
    IF n = 0 THEN {<<>>}
    ELSE SeqsUpTo(S, n - 1) \cup {Append(q, x) : q \in {r \in SeqsUpTo(S, n - 1) : Len(r) = n - 1}, x \in S}

Values == SeqsUpTo(Chars, MaxLen)
Params == [Key : Keys, Value : Values]
SingleKVCommands == [Command : Idents, Value : Values]
MultiKVCommands == [Command : Idents, Params : SeqsUpTo(Params, MaxParams) \ {<<>>}]

\* The steps the grammar produces (exactly one alternative set), the zero Step,
\* and a Step with both alternatives set.
StepInputs ==
    {[SingleKV |-> <<c>>, MultiKV |-> <<>>] : c \in SingleKVCommands}
    \cup {[SingleKV |-> <<>>, MultiKV |-> <<c>>] : c \in MultiKVCommands}
    \cup {[SingleKV |-> <<>>, MultiKV |-> <<>>]}
    \cup {[SingleKV |-> <<[Command |-> <<"s", "h">>, Value |-> <<"a">>]>>,
           MultiKV |-> <<[Command |-> <<"g", "i", "t">>,
                         Params |-> <<[Key |-> <<"b">>, Value |-> <<"a">>]>>]>>]}

\* faulty variant: the value is not quoted
SprintfUnquoted(c, v) == c \o <<" ">> \o v

\* fmt.Sprintf("%s '%s'", c, v)
Sprintf(c, v) == c \o <<" ", "'">> \o v \o <<"'">>

\* params[p.Key] = string(p.Value) on a map[string]interface{}
MapPut(m, k, v) == [x \in DOMAIN m \cup {k} |-> IF x = k THEN v ELSE m[x]]

\* lines 187-190: the map built from the first i parameters
RECURSIVE ParamsMap(_, _)
ParamsMap(ps, i) ==
    IF i = 0 THEN <<>> ELSE MapPut(ParamsMap(ps, i - 1), ps[i].Key, ps[i].Value)

\* Step.ToCommand: the command text, whether the map returned is nil, the map.
ToCommand(step) ==
    IF step.SingleKV = <<>> /\ step.MultiKV = <<>>
    THEN [text |-> <<>>, nilParams |-> TRUE, params |-> <<>>]
    ELSE IF step.SingleKV # <<>>
    THEN [text |-> Sprintf(step.SingleKV[1].Command, step.SingleKV[1].Value),
          nilParams |-> TRUE, params |-> <<>>]
    ELSE [text |-> step.MultiKV[1].Command, nilParams |-> FALSE,
          params |-> ParamsMap(step.MultiKV[1].Params, Len(step.MultiKV[1].Params))]

NoStep == [SingleKV |-> <<>>, MultiKV |-> <<>>]
NoCommand == [called |-> FALSE, cmd |-> ToCommand(NoStep)]

-----------------------------------------------------------------------------
(* QuotedString.Capture.                                                   *)

MaxBody == 3      \* longest text between the delimiters of a STRING token tried

QuoteChars == {"\"", "'"}
BodyChars == {"a", "b", "\"", "'"}

\* The text of a STRING token: a delimiter, a body without that delimiter, and
\* the same delimiter again.
StringTokens ==
    UNION {{<<q>> \o b \o <<q>> : b \in SeqsUpTo(BodyChars \ {q}, MaxBody)} : q \in QuoteChars}

\* strings.TrimLeft(s, cutset): drops leading characters while they are in cutset
RECURSIVE TrimLeft(_, _)
TrimLeft(s, cutset) ==
    IF s # <<>> /\ s[1] \in cutset THEN TrimLeft(Tail(s), cutset) ELSE s

\* strings.TrimRight(s, cutset): drops trailing characters while they are in cutset
RECURSIVE TrimRight(_, _)
TrimRight(s, cutset) ==
    IF s # <<>> /\ s[Len(s)] \in cutset
    THEN TrimRight(SubSeq(s, 1, Len(s) - 1), cutset) ELSE s

\* strings.Trim(s, cutset)
Trim(s, cutset) == TrimRight(TrimLeft(s, cutset), cutset)

\* QuotedString.Capture(values): the value stored in *o (line 72)
Capture(values) == Trim(values[1], QuoteChars)

\* The token with one leading and one trailing character removed.
Unquoted(tok) == SubSeq(tok, 2, Len(tok) - 1)

NoCall == [called |-> FALSE, out |-> <<>>]

-----------------------------------------------------------------------------
(* SampleActivities.SampleActivity and DockerActivity (activities.go).     *)
(* The environment of a call is the index of the first command that fails  *)
(* (0: none) and the step of the container lifecycle that fails.           *)

MaxCommands == 3  \* longest command list tried

ShellCommands == {"ls", "mvn"}
Images == {"", "maven"}
Lifecycle == {"ok", "pull", "create", "start", "stop"}

\* the output text the command prints
OutputOf(command) == <<"output of", command>>

ActivityInputs ==
    UNION {[commands : {c}, containerImage : Images, failAt : 0..Len(c), fails : Lifecycle] :
              c \in SeqsUpTo(ShellCommands, MaxCommands)}

\* activities.go:28-37, the loop of the host mode from command i on: results is
\* declared at line 27 and never appended to.
RECURSIVE HostLoop(_, _, _, _)
HostLoop(commands, i, failAt, results) ==
    IF i > Len(commands) THEN [results |-> results, err |-> "nil"]
    ELSE IF i = failAt THEN [results |-> results, err |-> "exec"]
    ELSE HostLoop(commands, i + 1, failAt, results)

\* activities.go:76-100, the loop of DockerActivity from command i on
RECURSIVE ExecLoop(_, _, _, _)
ExecLoop(commands, i, failAt, results) ==
    IF i > Len(commands) THEN [results |-> results, err |-> "nil"]
    ELSE IF i = failAt THEN [results |-> <<>>, err |-> "exec"]
    ELSE ExecLoop(commands, i + 1, failAt, Append(results, OutputOf(commands[i])))

\* DockerActivity(ctx, imageName, commands)
DockerActivity(in) ==
    IF in.fails \in {"pull", "create", "start"} THEN [results |-> <<>>, err |-> in.fails]
    ELSE LET r == ExecLoop(in.commands, 1, in.failAt, <<>>) IN
         IF r.err # "nil" THEN r
         ELSE IF in.fails = "stop" THEN [results |-> <<>>, err |-> "stop"]
         ELSE r

\* SampleActivity(ctx, commands, containerImage)
SampleActivity(in) ==
    IF in.containerImage # "" THEN DockerActivity(in)
    ELSE HostLoop(in.commands, 1, in.failAt, <<>>)

-----------------------------------------------------------------------------
(* buildImageWithTag.  An image reference is [registry/]name[:tag], the     *)
(* registry a host with or without a port.                                 *)

MaxName == 2      \* longest image name and longest tag tried

Registries == {<<>>, <<"h", "/">>, <<"h", ":", "5", "/">>}
ImageNames == SeqsUpTo({"a", "b"}, MaxName) \ {<<>>}
Tags == SeqsUpTo({"v", "1"}, MaxName)

\* the reference as written in the Jenkinsfile; an empty tag is no tag
Reference(registry, name, tag) ==
    [image  |-> registry \o name \o (IF tag = <<>> THEN <<>> ELSE <<":">> \o tag),
     tagged |-> tag # <<>>]

ImageInputs == {Reference(r, n, t) : r \in Registries, n \in ImageNames, t \in Tags}

\* strings.Split(s, sep) for a separator of one character
RECURSIVE Split(_, _)
Split(s, sep) ==
    IF \A i \in 1..Len(s) : s[i] # sep THEN <<s>>
    ELSE LET i == CHOOSE j \in 1..Len(s) : s[j] = sep /\ \A k \in 1..(j - 1) : s[k] # sep
         IN  <<SubSeq(s, 1, i - 1)>> \o Split(SubSeq(s, i + 1, Len(s)), sep)

Latest == <<":", "l", "a", "t", "e", "s", "t">>

\* buildImageWithTag(imageName)
buildImageWithTag(imageName) ==
    LET imageTag == Split(imageName, ":") IN
    IF Len(imageTag) > 1 THEN imageTag[1] \o <<":">> \o imageTag[2]
    ELSE imageTag[1] \o Latest

-----------------------------------------------------------------------------
(* PluginManager (plugins/plugin_manager.go): goroutines calling Register   *)
(* and Unregister with one and the same name.  Goroutine c registers the   *)
(* plugin c; the plugin PreRegistered may be in the map from the start.    *)

NumCallers == 2   \* goroutines calling the PluginManager concurrently

Callers == 1..NumCallers
PreRegistered == NumCallers + 1
PluginIds == 1..PreRegistered

Call(op, at, result, target) == [op |-> op, pc |-> at, result |-> result, target |-> target]
NoPluginCall == Call("none", "done", "none", 0)

\* The PluginManager of NewPluginManager with nobody calling it.
NoPluginCalls ==
    /\ plugins = 0
    /\ lock = 0
    /\ calls = [c \in Callers |-> NoPluginCall]
    /\ started = [p \in PluginIds |-> 0]
    /\ stopped = [p \in PluginIds |-> 0]
    /\ crashed = FALSE

\* Another goroutine is between its Lock and its return, assigning or deleting
\* the map entry (lines 33-37, 49-52).
Writing(c) == {d \in Callers \ {c} : calls[d].pc = "store"}

\* What pm.plugins[name] read without the lock (lines 26, 41) can yield: the
\* entry, or, read while another goroutine writes the map (a data race), the
\* entry that goroutine is writing.
UnlockedRead(c) ==
    {plugins} \cup {IF calls[d].op = "Register" THEN d ELSE 0 : d \in Writing(c)}

Returns(c, result) == [calls EXCEPT ![c].pc = "done", ![c].result = result]
GoesTo(c, at) == [calls EXCEPT ![c].pc = at]

-----------------------------------------------------------------------------
(* Actions.                                                                *)

EngineInit ==
    /\ pc = [s \in Ids |-> "idle"]
    /\ ret = [s \in Ids |-> Pending]
    /\ parRet = [s \in Ids |-> Pending]
    /\ consumed = [s \in Ids |-> FALSE]
    /\ cancelled = [s \in Ids |-> FALSE]
    /\ activityErr = [s \in Ids |-> Nil]
    /\ attempts = [s \in Ids |-> 0]
    /\ written = [s \in Ids |-> 0]
    /\ res = [m \in {0} \cup Ids |-> EmptyMap]
    /\ idx = 0
    /\ wfDone = FALSE
    /\ wfErr = Nil
    /\ wfRes = NilMap
    /\ firstFailed = [s \in Ids |-> 0]
    /\ writers = [m \in {0} \cup Ids |-> [n \in StageNames |-> {}]]

Init ==
    /\ pipeline \in Pipelines
    /\ EngineInit
    /\ NoPluginCalls
    /\ callArg = NoStep
    /\ callRet = NoCommand

\* GroovyDSLWorkflow is called and runs to its first blocking point.
StartWorkflow ==
    /\ idx = 0
    /\ Apply(RootLoop(StageExecute([Cur EXCEPT !.idx = 1], pipeline.Stages[1]), 1))
    /\ UNCHANGED <<pipeline, callArg, callRet, pmVars>>

\* An attempt of the activity of stage s fails or times out and the runtime
\* starts the next attempt; the workflow does not see it.
ActivityRetry(s) ==
    /\ ~wfDone /\ pc[s] = "activity" /\ ~CtxCancelled(Cur, s)
    /\ attempts[s] < MaximumAttempts
    /\ attempts' = [attempts EXCEPT ![s] = @ + 1]
    /\ UNCHANGED <<pipeline, pc, ret, parRet, consumed, cancelled, activityErr, written,
                   res, idx, wfDone, wfErr, wfRes, firstFailed, writers, callArg, callRet, pmVars>>

\* An attempt fails or times out and is not retried (it was the last attempt
\* of the policy, or the error is not retryable): Get returns the error
\* (lines 121-124).
ActivityFails(s, kind) ==
    /\ ~wfDone /\ pc[s] = "activity" /\ ~CtxCancelled(Cur, s)
    /\ Apply(RootResume(Return(Cur, s, Err(kind, s))))
    /\ UNCHANGED <<pipeline, callArg, callRet, pmVars>>

\* An attempt succeeds: Get returns nil and line 125 stores the result.
ActivitySucceeds(s) ==
    /\ ~wfDone /\ pc[s] = "activity" /\ ~CtxCancelled(Cur, s)
    /\ Apply(RootResume(Return(
              [StoreResult(Cur, s, SeqVal(UnitOutput(s))) EXCEPT !.written[s] = @ + 1],
              s, Nil)))
    /\ UNCHANGED <<pipeline, callArg, callRet, pmVars>>

\* The ctx of a pending activity was cancelled: Get returns a CanceledError.
ActivityCanceled(s) ==
    /\ ~wfDone /\ pc[s] = "activity" /\ CtxCancelled(Cur, s)
    /\ Apply(RootResume(Return(Cur, s, Err("canceled", s))))
    /\ UNCHANGED <<pipeline, callArg, callRet, pmVars>>

\* selector.Select of the group of stage g delivers the set future of branch c.
Select(g, c) ==
    /\ ~wfDone /\ pc[g] = "select"
    /\ c \in Children(g) /\ ret[c] # Pending /\ ~consumed[c]
    /\ Apply(RootResume(SelectBranch(Cur, g, c)))
    /\ UNCHANGED <<pipeline, callArg, callRet, pmVars>>

Next ==
    \/ StartWorkflow
    \/ \E s \in Ids : ActivityRetry(s)
    \/ \E s \in Ids, kind \in ErrorKinds : ActivityFails(s, kind)
    \/ \E s \in Ids : ActivitySucceeds(s)
    \/ \E s \in Ids : ActivityCanceled(s)
    \/ \E g \in Ids, c \in Ids : Select(g, c)

Spec == Init /\ [][Next]_vars

\* The engine on the smaller pipelines under the assumptions that every attempt
\* of a unit of work reports an outcome and that the dispatcher runs a coroutine
\* whose future is set: a step that stays possible is eventually taken.
InitFair ==
    /\ pipeline \in SmallPipelines
    /\ EngineInit
    /\ NoPluginCalls
    /\ callArg = NoStep
    /\ callRet = NoCommand

FairSpec == InitFair /\ [][Next]_vars /\ WF_vars(Next)

\* The engine states one step of one coroutine can lead to from the current
\* state: the results of the actions of Next that are enabled.
EngineSteps ==
    (IF idx = 0
     THEN {RootLoop(StageExecute([Cur EXCEPT !.idx = 1], pipeline.Stages[1]), 1)}
     ELSE {})
    \cup (IF wfDone THEN {} ELSE
          {[Cur EXCEPT !.attempts[s] = @ + 1] :
              s \in {t \in Ids : pc[t] = "activity" /\ ~CtxCancelled(Cur, t)
                                   /\ attempts[t] < MaximumAttempts}}
          \cup {RootResume(Return(Cur, s, Err(kind, s))) :
              s \in {t \in Ids : pc[t] = "activity" /\ ~CtxCancelled(Cur, t)},
              kind \in ErrorKinds}
          \cup {RootResume(Return(
                  [StoreResult(Cur, s, SeqVal(UnitOutput(s))) EXCEPT !.written[s] = @ + 1],
                  s, Nil)) :
              s \in {t \in Ids : pc[t] = "activity" /\ ~CtxCancelled(Cur, t)}}
          \cup {RootResume(Return(Cur, s, Err("canceled", s))) :
              s \in {t \in Ids : pc[t] = "activity" /\ CtxCancelled(Cur, t)}}
          \cup UNION {{RootResume(SelectBranch(Cur, g, c)) :
                         c \in {d \in Children(g) : ret[d] # Pending /\ ~consumed[d]}} :
                     g \in {h \in Ids : pc[h] = "select"}})

\* The same engine on a pipeline in which the failFast of any stage may be set
\* to absent, true or false at any moment, one stage at a time: the flag of a
\* stage is set while every other stage has it absent.
FailFastValues == {"absent", "true", "false"}

InitFF ==
    /\ pipeline \in SmallPipelines
    /\ EngineInit
    /\ NoPluginCalls
    /\ callArg = NoStep
    /\ callRet = NoCommand

SetFailFast(s, v) ==
    /\ Stage(s).FailFast # v
    /\ \A t \in Ids \ {s} : Stage(t).FailFast = "absent"
    /\ pipeline' = [pipeline EXCEPT !.Table[s].FailFast = v]
    /\ UNCHANGED <<engineVars, callArg, callRet, pmVars>>

NextFF ==
    \/ Next
    \/ \E s \in Ids, v \in FailFastValues : SetFailFast(s, v)

SpecFF == InitFF /\ [][NextFF]_vars

\* SampleActivity applied to every input and environment of ActivityInputs.
InitActivity ==
    /\ pipeline = SamplePipeline
    /\ EngineInit
    /\ NoPluginCalls
    /\ callArg \in ActivityInputs
    /\ callRet = NoCall

CallSampleActivity ==
    /\ ~callRet.called
    /\ callRet' = [called |-> TRUE, out |-> SampleActivity(callArg)]
    /\ UNCHANGED <<pipeline, engineVars, callArg, pmVars>>

NextActivity == CallSampleActivity

SpecActivity == InitActivity /\ [][NextActivity]_vars

\* Goroutines calling Register or Unregister of one PluginManager with the
\* same name, the name registered or not at the start.
InitPlugins ==
    /\ pipeline = SamplePipeline
    /\ EngineInit
    /\ callArg = NoStep
    /\ callRet = NoCommand
    /\ lock = 0
    /\ crashed = FALSE
    /\ \E pre \in {0, PreRegistered} :
          /\ plugins = pre
          /\ started = [p \in PluginIds |-> IF p = pre THEN 1 ELSE 0]
    /\ stopped = [p \in PluginIds |-> 0]
    /\ calls \in [Callers -> {Call(op, "check", "none", 0) : op \in {"Register", "Unregister"}}]

\* line 26: the existence check of Register, made without the lock
RegisterCheck(c, v) ==
    /\ ~crashed /\ calls[c].op = "Register" /\ calls[c].pc = "check"
    /\ v \in UnlockedRead(c)
    /\ calls' = IF v # 0 THEN Returns(c, "already registered") ELSE GoesTo(c, "start")
    /\ UNCHANGED <<plugins, lock, started, stopped, crashed, workflowVars>>

\* lines 29-31: plugin.Start() of the plugin handed to Register
PluginStart(c, ok) ==
    /\ ~crashed /\ calls[c].op = "Register" /\ calls[c].pc = "start"
    /\ started' = [started EXCEPT ![c] = @ + 1]
    /\ calls' = IF ok THEN GoesTo(c, "lock") ELSE Returns(c, "failed to init")
    /\ UNCHANGED <<plugins, lock, stopped, crashed, workflowVars>>

\* lines 41-44: the lookup of Unregister, made without the lock
UnregisterCheck(c, v) ==
    /\ ~crashed /\ calls[c].op = "Unregister" /\ calls[c].pc = "check"
    /\ v \in UnlockedRead(c)
    /\ calls' = IF v = 0 THEN Returns(c, "not found")
                ELSE [calls EXCEPT ![c].pc = "stop", ![c].target = v]
    /\ UNCHANGED <<plugins, lock, started, stopped, crashed, workflowVars>>

\* lines 45-47: plugin.Stop() of the plugin found
PluginStop(c, ok) ==
    /\ ~crashed /\ calls[c].op = "Unregister" /\ calls[c].pc = "stop"
    /\ stopped' = [stopped EXCEPT ![calls[c].target] = @ + 1]
    /\ calls' = IF ok THEN GoesTo(c, "lock") ELSE Returns(c, "failed to stop")
    /\ UNCHANGED <<plugins, lock, started, crashed, workflowVars>>

\* lines 33, 49: pm.lock.Lock()
Lock(c) ==
    /\ ~crashed /\ calls[c].pc = "lock" /\ lock = 0
    /\ lock' = c
    /\ calls' = GoesTo(c, "store")
    /\ UNCHANGED <<plugins, started, stopped, crashed, workflowVars>>

\* lines 36-37: pm.plugins[name] = plugin, return nil, the deferred Unlock
RegisterStore(c) ==
    /\ ~crashed /\ calls[c].op = "Register" /\ calls[c].pc = "store"
    /\ plugins' = c
    /\ lock' = 0
    /\ calls' = Returns(c, "nil")
    /\ UNCHANGED <<started, stopped, crashed, workflowVars>>

\* lines 51-52: delete(pm.plugins, name), return nil, the deferred Unlock
UnregisterStore(c) ==
    /\ ~crashed /\ calls[c].op = "Unregister" /\ calls[c].pc = "store"
    /\ plugins' = 0
    /\ lock' = 0
    /\ calls' = Returns(c, "nil")
    /\ UNCHANGED <<started, stopped, crashed, workflowVars>>

\* The unlocked read of lines 26, 41 runs while another goroutine writes the
\* map and the runtime detects it: fatal error, concurrent map read and map write.
FatalMapAccess(c) ==
    /\ ~crashed /\ calls[c].pc = "check" /\ Writing(c) # {}
    /\ crashed' = TRUE
    /\ UNCHANGED <<plugins, lock, calls, started, stopped, workflowVars>>

NextPlugins ==
    \/ \E c \in Callers, v \in 0..PreRegistered : RegisterCheck(c, v)
    \/ \E c \in Callers, ok \in BOOLEAN : PluginStart(c, ok)
    \/ \E c \in Callers, v \in 0..PreRegistered : UnregisterCheck(c, v)
    \/ \E c \in Callers, ok \in BOOLEAN : PluginStop(c, ok)
    \/ \E c \in Callers : Lock(c)
    \/ \E c \in Callers : RegisterStore(c)
    \/ \E c \in Callers : UnregisterStore(c)
    \/ \E c \in Callers : FatalMapAccess(c)

SpecPlugins == InitPlugins /\ [][NextPlugins]_vars

\* buildImageWithTag applied to every reference of ImageInputs.
InitImage ==
    /\ pipeline = SamplePipeline
    /\ EngineInit
    /\ NoPluginCalls
    /\ callArg \in ImageInputs
    /\ callRet = NoCall

CallBuildImageWithTag ==
    /\ ~callRet.called
    /\ callRet' = [called |-> TRUE, out |-> buildImageWithTag(callArg.image)]
    /\ UNCHANGED <<pipeline, engineVars, callArg, pmVars>>

NextImage == CallBuildImageWithTag

SpecImage == InitImage /\ [][NextImage]_vars

\* Step.ToCommand applied to every step of StepInputs.
InitCmd ==
    /\ pipeline = SamplePipeline
    /\ EngineInit
    /\ NoPluginCalls
    /\ callArg \in StepInputs
    /\ callRet = NoCommand

CallToCommand ==
    /\ ~callRet.called
    /\ callRet' = [called |-> TRUE, cmd |-> ToCommand(callArg)]
    /\ UNCHANGED <<pipeline, engineVars, callArg, pmVars>>

NextCmd == CallToCommand

SpecCmd == InitCmd /\ [][NextCmd]_vars

\* QuotedString.Capture applied to the text of every STRING token of StringTokens.
InitQuote ==
    /\ pipeline = SamplePipeline
    /\ EngineInit
    /\ NoPluginCalls
    /\ callArg \in StringTokens
    /\ callRet = NoCall

CallCapture ==
    /\ ~callRet.called
    /\ callRet' = [called |-> TRUE, out |-> Capture(<<callArg>>)]
    /\ UNCHANGED <<pipeline, engineVars, callArg, pmVars>>

NextQuote == CallCapture

SpecQuote == InitQuote /\ [][NextQuote]_vars

-----------------------------------------------------------------------------
(* Properties.                                                             *)

IsError(v) == v # Nil /\ v # Pending
Groups == {g \in Ids : Len(Stage(g).Parallel) > 0}
\* some childCtx the ctx of stage s derives from has been cancelled
UnderCancelledScope(s) == \E g \in Scopes(s) : cancelled[g]

\* C1: when Parallel.execute of a group has returned (nil or an error), every
\* branch of the group has returned and the selector has delivered all N futures.
NoLeakedTasks ==
    \A g \in Groups : parRet[g] # Pending =>
        \A c \in Children(g) : ret[c] # Pending /\ consumed[c]

\* C2 as claimed: Parallel.execute returns nil iff every branch returned nil, and
\* otherwise the error of the branch whose failure completed first in time.
FirstFailureInTimeWins ==
    \A g \in Groups : parRet[g] # Pending =>
        /\ (parRet[g] = Nil <=> \A c \in Children(g) : ret[c] = Nil)
        /\ (parRet[g] # Nil => parRet[g] = ret[firstFailed[g]])

\* C2 amended: Parallel.execute returns nil iff every branch returned nil, and
\* otherwise the error of the one failed branch its selector delivered (the first
\* failure the group observed); that error is a cancellation only when a scope
\* outside the group was cancelled, never one caused by the group's own cancel.
FirstObservedFailureWins ==
    \A g \in Groups : parRet[g] # Pending =>
        /\ (parRet[g] = Nil <=> \A c \in Children(g) : ret[c] = Nil)
        /\ (parRet[g] # Nil =>
               /\ \E c \in Children(g) :
                     /\ consumed[c] /\ ret[c] = parRet[g]
                     /\ \A d \in Children(g) \ {c} : consumed[d] => ret[d] = Nil
               /\ (parRet[g].kind = "canceled" => UnderCancelledScope(g)))

\* C2 witness: a group returned the error of a branch that was not the first
\* to fail, and its selector never delivered the earlier failure.
SecondFailureReturned ==
    \E g \in Groups :
        /\ IsError(parRet[g]) /\ firstFailed[g] # 0
        /\ parRet[g] # ret[firstFailed[g]]
        /\ ~consumed[firstFailed[g]]

\* C3 as claimed: once the failure of a branch has been observed by the group,
\* every other branch that has not returned ends cancelled, never otherwise.
SiblingsEndCancelled ==
    [][\A g \in Groups : \A s \in Children(g) :
          (cancelled[g] /\ ret[s] = Pending) =>
              (ret'[s] = Pending \/ ret'[s].kind = "canceled")]_vars

\* C3 amended: under a cancelled scope no unit of work and no further attempt is
\* started and no unit completes successfully; a stage whose unit is in flight
\* ends cancelled; a stage that returns nil has no steps of its own (it was only
\* waiting for a nested group whose branches had all succeeded already).
NoWorkUnderCancelledScope ==
    [][\A s \in Ids : UnderCancelledScope(s) =>
          /\ attempts'[s] = attempts[s]
          /\ written'[s] = written[s]
          /\ (pc[s] = "activity" => ret'[s] \in {Pending, Err("canceled", s)})
          /\ (ret[s] = Pending /\ ret'[s] = Nil => Len(Stage(s).Steps) = 0)]_vars

\* C3 witness: a group returned the failure of branch b and a sibling whose unit
\* was in flight has ended cancelled.
SiblingCancelled ==
    \E g \in Groups : \E b, s \in Children(g) :
        /\ b # s /\ parRet[g] = ret[b] /\ ret[b].kind \in ErrorKinds
        /\ attempts[s] > 0 /\ ret[s] = Err("canceled", s)

\* C4: once a top-level stage has returned an error, GroovyDSLWorkflow has
\* returned that error and no later stage (nor any stage below it) was started.
SequentialFailFast ==
    \A i \in DOMAIN pipeline.Stages : IsError(ret[pipeline.Stages[i]]) =>
        /\ wfDone /\ wfErr = ret[pipeline.Stages[i]]
        /\ \A j \in DOMAIN pipeline.Stages : j > i =>
              \A d \in Subtree(pipeline.Stages[j]) : pc[d] = "idle" /\ attempts[d] = 0

\* C4 witness: a stage that is not the last one has returned an error.
EarlyStageFailed ==
    \E i \in DOMAIN pipeline.Stages :
        i < Len(pipeline.Stages) /\ IsError(ret[pipeline.Stages[i]])

\* C5: a stage of top-level stage j (or below it) has started only when every
\* stage of every earlier top-level stage i, its branches included, has
\* returned nil.
StrictSequentialOrder ==
    \A i, j \in DOMAIN pipeline.Stages : i < j =>
        \A d \in Subtree(pipeline.Stages[j]) : pc[d] # "idle" =>
            \A b \in Subtree(pipeline.Stages[i]) : pc[b] = "done" /\ ret[b] = Nil

\* C5 witness: the unit of a stage that follows a parallel stage is running.
StageAfterParallelRunning ==
    \E j \in DOMAIN pipeline.Stages :
        /\ j > 1 /\ pc[pipeline.Stages[j]] = "activity"
        /\ Len(Stage(pipeline.Stages[j - 1]).Parallel) > 1

\* the keys of results map m that hold an entry
KeysOf(m) == {n \in StageNames : res[m][n] # Absent}
\* the results map the entry of stage s belongs in
HolderOf(s) == IF \E g \in Ids : s \in Children(g) THEN Parent(s) ELSE 0
NamesDistinct(q) == \A i, j \in DOMAIN q : i # j => Stage(q[i]).Name # Stage(q[j]).Name
\* sibling names are distinct and every stage has steps or a parallel group, not both
DistinctAndSingleKind ==
    /\ NamesDistinct(pipeline.Stages)
    /\ \A s \in Ids :
          /\ NamesDistinct(Stage(s).Parallel)
          /\ (Len(Stage(s).Steps) > 0) # (Len(Stage(s).Parallel) > 0)

\* C6: when GroovyDSLWorkflow returns nil for such a pipeline, it returns the
\* results map, whose keys are the names of the top-level stages; the entry of a
\* stage with steps is the output sequence of its unit, the entry of a stage with
\* a parallel group is the group's map, whose keys are the names of the branches.
ResultShape ==
    (wfDone /\ wfErr = Nil /\ DistinctAndSingleKind) =>
        /\ wfRes = MapVal(0)
        /\ KeysOf(0) = {Stage(s).Name : s \in TopLevel}
        /\ Cardinality(KeysOf(0)) = Len(pipeline.Stages)
        /\ \A s \in Ids :
              /\ Len(Stage(s).Steps) > 0 =>
                    /\ res[HolderOf(s)][Stage(s).Name].kind = "seq"
                    /\ res[HolderOf(s)][Stage(s).Name].out = UnitOutput(s)
                    /\ Len(res[HolderOf(s)][Stage(s).Name].out) = Len(Stage(s).Steps)
              /\ Len(Stage(s).Parallel) > 0 =>
                    /\ res[HolderOf(s)][Stage(s).Name] = MapVal(s)
                    /\ KeysOf(s) = {Stage(c).Name : c \in Children(s)}
                    /\ Cardinality(KeysOf(s)) = Len(Stage(s).Parallel)

\* C6 witness: such a pipeline, with a parallel group of several branches nested
\* inside a branch, ran to success.
ShapeAfterSuccess ==
    /\ wfDone /\ wfErr = Nil /\ DistinctAndSingleKind
    /\ \E g \in Groups : Len(Stage(g).Parallel) > 1 /\ IsBranch(g)

\* C7 as claimed: when GroovyDSLWorkflow returns an error, it returns the results
\* map (with what was written before the failure) alongside it.
PartialResultsReturned ==
    (wfDone /\ wfErr # Nil) => wfRes = MapVal(0)

\* C7 amended: when GroovyDSLWorkflow returns an error, the entries written for
\* the top-level stages and branches that completed before are still in the
\* results maps, but the value returned alongside the error is nil.
PartialResultsKeptNotReturned ==
    (wfDone /\ wfErr # Nil) =>
        /\ wfRes = NilMap
        /\ \A i \in 1..(idx - 1) :
              LET s == pipeline.Stages[i] IN
              (Len(Stage(s).Steps) > 0 \/ Len(Stage(s).Parallel) > 0) =>
                  res[0][Stage(s).Name] # Absent
        /\ \A s \in Ids : written[s] = 1 => res[HolderOf(s)][Stage(s).Name].kind = "seq"

\* C7 witness: the workflow failed after a top-level stage had stored its result.
FailedAfterStoredResult ==
    /\ wfDone /\ wfErr # Nil /\ idx > 1
    /\ written[pipeline.Stages[1]] = 1
    /\ res[0][Stage(pipeline.Stages[1]).Name].kind = "seq"

\* C8: GroovyDSLWorkflow returns nil only if every unit that was started
\* succeeded; the error of a stage delivered to its group is the error the group
\* and its stage return, the error of a top-level stage is the error the
\* workflow returns, and no stage error leaves the workflow returning nil.
ErrorsNeverSwallowed ==
    /\ (wfDone /\ wfErr = Nil) => \A s \in Ids : attempts[s] > 0 => ret[s] = Nil
    /\ \A s \in Ids : IsError(ret[s]) =>
          /\ ~(wfDone /\ wfErr = Nil)
          /\ (s \in TopLevel => wfDone /\ wfErr = ret[s])
          /\ (IsBranch(s) /\ consumed[s]) =>
                (parRet[Parent(s)] = ret[s] /\ ret[Parent(s)] = ret[s])
          /\ (IsBranch(s) => ret[Parent(s)] # Nil)

\* C8 witness: the failure of a unit two groups deep is the error the workflow returned.
NestedFailureReturned ==
    \E s \in Ids :
        /\ IsBranch(s) /\ IsBranch(Parent(s))
        /\ wfDone /\ wfErr = Err("failed", s) /\ attempts[s] = 3

\* C9: the unit of a stage is attempted at most 3 times; line 125 runs at most
\* once per stage, exactly when the unit succeeded, and then the stage returned
\* nil; a unit that ended with an error, and a running or retried unit, has
\* stored nothing, and a retried unit has produced no outcome yet.
BoundedInvisibleRetry ==
    \A s \in Ids :
        /\ attempts[s] \in 0..3
        /\ written[s] \in 0..1
        /\ written[s] = 1 <=> (attempts[s] >= 1 /\ ret[s] = Nil)
        /\ ret[s] \in {Err(k, s) : k \in ErrorKinds \cup {"canceled"}} => written[s] = 0
        /\ pc[s] = "activity" => (ret[s] = Pending /\ written[s] = 0)
        /\ written[s] = 0 /\ Len(Stage(s).Parallel) = 0
              => res[HolderOf(s)][Stage(s).Name].kind # "seq"
                 \/ \E o \in Ids \ {s} : HolderOf(o) = HolderOf(s) /\ Stage(o).Name = Stage(s).Name

\* C9 witness: a unit succeeded on its third attempt and its result was stored once.
SucceededOnThirdAttempt ==
    \E s \in Ids : attempts[s] = 3 /\ written[s] = 1 /\ ret[s] = Nil

\* C10: for a single-argument step ToCommand returns the command, a space and the
\* value between single quotes, and nil parameters; for a multi-argument step
\* with distinct keys it returns the command and a map with exactly the step's
\* key/value pairs.
StepTranslation ==
    callRet.called =>
        /\ (callArg.SingleKV # <<>> /\ callArg.MultiKV = <<>>) =>
              LET c == callArg.SingleKV[1].Command
                  v == callArg.SingleKV[1].Value
                  x == callRet.cmd.text
              IN  /\ Len(x) = Len(c) + Len(v) + 3
                  /\ SubSeq(x, 1, Len(c)) = c
                  /\ x[Len(c) + 1] = " " /\ x[Len(c) + 2] = "'"
                  /\ SubSeq(x, Len(c) + 3, Len(x) - 1) = v
                  /\ x[Len(x)] = "'"
                  /\ callRet.cmd.nilParams
        /\ (callArg.SingleKV = <<>> /\ callArg.MultiKV # <<>>) =>
              LET ps == callArg.MultiKV[1].Params IN
              (\A i, j \in DOMAIN ps : i # j => ps[i].Key # ps[j].Key) =>
                  /\ callRet.cmd.text = callArg.MultiKV[1].Command
                  /\ ~callRet.cmd.nilParams
                  /\ DOMAIN callRet.cmd.params = {ps[i].Key : i \in DOMAIN ps}
                  /\ \A i \in DOMAIN ps : callRet.cmd.params[ps[i].Key] = ps[i].Value

\* C10 witness: ToCommand was applied to a single-argument step whose value
\* holds a quote character.
TranslatedSingleArg ==
    /\ callRet.called /\ callArg.SingleKV # <<>> /\ callArg.MultiKV = <<>>
    /\ \E i \in DOMAIN callArg.SingleKV[1].Value : callArg.SingleKV[1].Value[i] = "'"

\* C11: capturing a STRING token removes exactly one leading and one trailing
\* delimiter; quote characters left inside the token are kept.
QuotesStrippedOnce ==
    callRet.called => callRet.out = Unquoted(callArg)

\* the stages with both a parallel group and steps of their own
GroupsWithSteps == {g \in Groups : Len(Stage(g).Steps) > 0}

\* C12: the unit of work of a stage with a parallel group and steps is started
\* only when every branch of the group has returned nil and been delivered, with
\* no stage below it still running; when the group returned an error the unit
\* is never started and nothing is stored for it.
StepsAfterParallelGroup ==
    \A g \in GroupsWithSteps :
        /\ attempts[g] > 0 =>
              /\ \A c \in Children(g) : ret[c] = Nil /\ consumed[c]
              /\ \A d \in Subtree(g) \ {g} : pc[d] = "done"
        /\ IsError(parRet[g]) => attempts[g] = 0 /\ written[g] = 0

\* C12 witness: the unit of such a stage is running after both branches, whose
\* own units ran, have returned.
StepsStartedAfterGroup ==
    \E g \in GroupsWithSteps :
        /\ pc[g] = "activity" /\ parRet[g] = Nil
        /\ \A c \in Children(g) : written[c] > 0 /\ pc[c] = "done"

\* C13: when a stage with a parallel group and steps has returned nil, its entry
\* of the results map holds both the group's nested map and the stage's own
\* step outputs.
GroupMapAndStepsCombined ==
    \A g \in GroupsWithSteps : ret[g] = Nil =>
        /\ res[HolderOf(g)][Stage(g).Name].ref = g
        /\ res[HolderOf(g)][Stage(g).Name].out = UnitOutput(g)

\* C14: no key of a results map is assigned by the coroutines of two different
\* branches.
SingleWriterPerKey ==
    \A m \in DOMAIN writers : \A n \in StageNames :
        \A a, b \in writers[m][n] : IsBranch(a) /\ IsBranch(b) => a = b

\* C15: a cancelled childCtx stays cancelled, and from then on, at every depth
\* below its group, no attempt of a unit of work is started and a unit in flight
\* can only end cancelled.
CancellationReachesDescendants ==
    [][\A g \in Groups : cancelled[g] =>
          /\ cancelled'[g]
          /\ \A s \in Subtree(g) \ {g} :
                /\ attempts'[s] = attempts[s]
                /\ (pc[s] = "activity" => ret'[s] \in {Pending, Err("canceled", s)})]_vars

\* C15 witness: branch b of group g failed, and the unit of a branch of a group
\* nested in a sibling of b, whose own childCtx was never cancelled, has ended
\* cancelled.
NestedBranchCancelled ==
    \E g \in Groups : \E b \in Children(g) : \E s \in Subtree(g) \ Subtree(b) :
        /\ ret[b].kind \in ErrorKinds /\ parRet[g] = ret[b] /\ cancelled[g]
        /\ s # g /\ Parent(s) # g /\ ~cancelled[Parent(s)]
        /\ attempts[s] > 0 /\ ret[s] = Err("canceled", s)

\* C16: setting the failFast of a stage to another value, in any state of any
\* execution, leaves the set of next engine states (with the results and errors
\* in them) as it was, and every step the engine takes is one of that set; so
\* the behaviours and results are the same for every choice of the flags.
FailFastNeverChangesExecution ==
    [][/\ pipeline' # pipeline => Cur' = Cur /\ EngineSteps' = EngineSteps
       /\ pipeline' = pipeline => Cur' \in EngineSteps]_vars

\* C16 witness: under a group stage with failFast false the first failure was
\* observed, cancelled the group's childCtx and was returned up to
\* GroovyDSLWorkflow, which stopped.
CancelledWithFailFastFalse ==
    \E g \in Groups :
        /\ Stage(g).FailFast = "false" /\ cancelled[g] /\ IsError(parRet[g])
        /\ \E c \in Children(g) : ret[c] = parRet[g] /\ ret[c].kind \in ErrorKinds
        /\ wfDone /\ wfErr = parRet[g]

\* C17: when every command succeeds (and, with a container image, every step
\* of the container lifecycle), the activity returns no error and one output
\* per command, in command order, with or without a container image.
OneOutputPerCommand ==
    (callRet.called /\ callArg.failAt = 0
         /\ (callArg.containerImage # "" => callArg.fails = "ok")) =>
        /\ callRet.out.err = "nil"
        /\ callRet.out.results =
              [i \in 1..Len(callArg.commands) |-> OutputOf(callArg.commands[i])]

\* C18: GroovyDSLWorkflow eventually returns.
WorkflowTerminates == <>wfDone

\* C18 witness: GroovyDSLWorkflow has returned nil after a parallel group with
\* a group nested in it had waited for all its branches.
ReturnedAfterNestedGroups ==
    /\ wfDone /\ wfErr = Nil
    /\ \E g \in Groups : IsBranch(g) /\ parRet[g] = Nil /\ parRet[Parent(g)] = Nil

CallsOf(op) == {c \in Callers : calls[c].op = op}
Succeeded(op) == {c \in CallsOf(op) : calls[c].result = "nil"}
NoPluginFailure == \A c \in Callers : calls[c].result \notin {"failed to init", "failed to stop"}

\* C19: when all goroutines call Register with the one name and no Start
\* fails, at most one call returns nil and Start is called on at most one of
\* their plugins; when all call Unregister of the registered name and no Stop
\* fails, Stop is called at most once and at most one call returns nil.
RegistryUnique ==
    /\ (CallsOf("Register") = Callers /\ NoPluginFailure) =>
          /\ Cardinality(Succeeded("Register")) <= 1
          /\ Cardinality({c \in Callers : started[c] > 0}) <= 1
    /\ (CallsOf("Unregister") = Callers /\ NoPluginFailure) =>
          /\ Cardinality(Succeeded("Unregister")) <= 1
          /\ stopped[PreRegistered] <= 1

\* C20: buildImageWithTag returns a tagged reference unchanged, with or without
\* a registry port in it, and an untagged reference with ':latest' appended.
TagResolved ==
    callRet.called =>
        callRet.out = IF callArg.tagged THEN callArg.image ELSE callArg.image \o Latest

====
